---- MODULE Spec2Model ----
(***************************************************************************)
(* The file organizer of tasks/task_01.py: cli() parses the command line   *)
(* and runs folder_copy, which resolves the two paths, walks the source    *)
(* tree (read_folder) and gathers one copy_file coroutine per file found.  *)
(* Every await of the source is one step of the model; file names and      *)
(* paths are tuples of one-character strings so that pathlib's suffix,     *)
(* stem and with_stem are computed, not assumed.                           *)
(***************************************************************************)
EXTENDS Integers, Sequences, FiniteSets, TLC

(***************************************************************************)
(* Bounds of the model.                                                    *)
(***************************************************************************)
\* OS-level faults the environment may inject over the whole behaviour
MaxFaults == 1
\* how many times the program is started, one after the other
MaxRuns == 2

(***************************************************************************)
(* Characters and strings.                                                 *)
(***************************************************************************)
Digits == <<"0", "1", "2", "3", "4", "5", "6", "7", "8", "9">>

\* str.lower() on one character of the alphabet the file names use
LowerChar(c) ==
    CASE c = "A" -> "a"
      [] c = "B" -> "b"
      [] c = "C" -> "c"
      [] OTHER -> c

\* str.lower()
Lower(s) == [i \in 1..Len(s) |-> LowerChar(s[i])]

\* str(n) for n >= 0
RECURSIVE Str(_)
Str(n) == IF n < 10 THEN <<Digits[n + 1]>>
          ELSE Str(n \div 10) \o <<Digits[(n % 10) + 1]>>

\* str.rfind(c), 1-based, 0 when c does not occur
RFind(s, c) ==
    LET hits == {i \in 1..Len(s) : s[i] = c}
    IN  IF hits = {} THEN 0 ELSE CHOOSE i \in hits : \A j \in hits : j <= i

\* the first index of s that holds another character than c (Len(s)+1 if none)
FirstOther(s, c) ==
    LET others == {i \in 1..Len(s) : s[i] # c}
    IN  IF others = {} THEN Len(s) + 1
        ELSE CHOOSE i \in others : \A j \in others : i <= j

(***************************************************************************)
(* pathlib.PurePath.suffix / stem / with_stem on a file name.  dotSuffix   *)
(* is the interpreter's rule for a name ending in a dot: up to Python 3.13 *)
(* such a name has no suffix, from 3.14 on its suffix is ".".  The model   *)
(* runs with DotIsSuffix, the rule of the interpreters before 3.14.        *)
(***************************************************************************)
SuffixAt(name, dotSuffix) ==
    LET i == RFind(name, ".")
    IN  IF i = 0 THEN 0
        ELSE IF dotSuffix
             THEN IF i > FirstOther(name, ".") THEN i ELSE 0
             ELSE IF 1 < i /\ i < Len(name) THEN i ELSE 0

Suffix(name, dotSuffix) ==
    LET i == SuffixAt(name, dotSuffix)
    IN  IF i = 0 THEN <<>> ELSE SubSeq(name, i, Len(name))

Stem(name, dotSuffix) ==
    LET i == SuffixAt(name, dotSuffix)
    IN  IF i = 0 THEN name ELSE SubSeq(name, 1, i - 1)

WithStem(name, stem, dotSuffix) == stem \o Suffix(name, dotSuffix)

\* the rule of the interpreters the program's libraries run on (before 3.14)
DotIsSuffix == FALSE


(***************************************************************************)
(* Paths handed to get_absolute_path: a path string is a tuple of          *)
(* characters, "/" separating its parts (POSIX flavour).                   *)
(***************************************************************************)
\* PurePath.is_absolute()
IsAbsolute(path) == Len(path) > 0 /\ path[1] = "/"

\* PurePath.__truediv__: base / path
Join(base, path) ==
    IF IsAbsolute(path) THEN path
    ELSE IF base = <<>> THEN path
    ELSE IF base[Len(base)] = "/" THEN base \o path
    ELSE base \o <<"/">> \o path

\* an absent optional argument (None) and a supplied one
None == [given |-> FALSE, path |-> <<>>]
Some(path) == [given |-> TRUE, path |-> path]

\* get_absolute_path(path, current_dir), the working directory being cwd:
\* the ValueError of line 31, or the path returned by line 35 or line 42
get_absolute_path(path, current_dir, cwd) ==
    IF path = <<>>
    THEN [raised |-> TRUE, path |-> <<>>]
    ELSE IF IsAbsolute(path)
    THEN [raised |-> FALSE, path |-> path]
    ELSE [raised |-> FALSE,
          path |-> Join(IF current_dir.given THEN current_dir.path ELSE cwd, path)]

(***************************************************************************)
(* file_path_build: the destination of a file is the pair <<category,      *)
(* name>> below the destination folder.                                    *)
(***************************************************************************)
WithoutExtension ==
    <<"w", "i", "t", "h", "o", "u", "t", "_", "e", "x", "t", "e", "n", "s", "i", "o", "n">>

\* line 55: the suffix without its leading dot
FileExtension(name, dotSuffix) ==
    LET sfx == Suffix(name, dotSuffix)
    IN  IF Len(sfx) > 0 /\ sfx[1] = "." THEN Tail(sfx) ELSE sfx

\* a candidate that drops the dot of a file without extension
InitialCandidateNoDot(name, dotSuffix) ==
    LET ext == FileExtension(name, dotSuffix)
    IN  [cat  |-> IF ext = <<>> THEN WithoutExtension ELSE ext,
         name |-> IF ext = <<>> THEN Stem(name, dotSuffix)
                  ELSE Stem(name, dotSuffix) \o <<".">> \o ext]

\* line 57: dest / (file_extension or "without_extension") / f"{file_name}.{file_extension}"
InitialCandidate(name, dotSuffix) ==
    LET ext == FileExtension(name, dotSuffix)
    IN  [cat  |-> IF ext = <<>> THEN WithoutExtension ELSE ext,
         name |-> Stem(name, dotSuffix) \o <<".">> \o ext]

\* f"{file_name} ({rename_tries})"
CounterStem(stem, n) == stem \o <<" ", "(">> \o Str(n) \o <<")">>

\* line 64: new_file_name.with_stem(f"{file_name} ({rename_tries})")
NextCandidateFromTwo(candidate, name, tries, dotSuffix) ==
    [cat  |-> candidate.cat,
     name |-> WithStem(candidate.name, CounterStem(Stem(name, dotSuffix), tries + 1),
                       dotSuffix)]
NextCandidate(candidate, name, tries, dotSuffix) ==
    [cat  |-> candidate.cat,
     name |-> WithStem(candidate.name, CounterStem(Stem(name, dotSuffix), tries), dotSuffix)]

(***************************************************************************)
(* Source trees.  A tree is a tuple of directory entries, entry 1 being    *)
(* the source folder; parent is the entry's directory, target the entry a  *)
(* symbolic link points to (0: dangling), unreadable marks a directory     *)
(* whose listing may raise OSError.  Directories list their entries in     *)
(* index order.                                                            *)
(***************************************************************************)
Dir(name, parent, unreadable) ==
    [kind |-> "dir", name |-> name, parent |-> parent, target |-> 0,
     unreadable |-> unreadable]
File(name, parent) ==
    [kind |-> "file", name |-> name, parent |-> parent, target |-> 0,
     unreadable |-> FALSE]
Link(name, parent, target) ==
    [kind |-> "link", name |-> name, parent |-> parent, target |-> target,
     unreadable |-> FALSE]
Special(name, parent) ==
    [kind |-> "special", name |-> name, parent |-> parent, target |-> 0,
     unreadable |-> FALSE]

\* src/d1/a.txt, src/d2/a.txt, src/a (1).txt
TreeSameName ==
    << Dir(<<"s">>, 0, FALSE),
       Dir(<<"d", "1">>, 1, FALSE),
       File(<<"a", ".", "t", "x", "t">>, 2),
       Dir(<<"d", "2">>, 1, FALSE),
       File(<<"a", ".", "t", "x", "t">>, 4),
       File(<<"a", " ", "(", "1", ")", ".", "t", "x", "t">>, 1) >>

\* src/readme, src/sub/readme
TreeNoExtension ==
    << Dir(<<"s">>, 0, FALSE),
       File(<<"r", "e", "a", "d", "m", "e">>, 1),
       Dir(<<"s", "u", "b">>, 1, FALSE),
       File(<<"r", "e", "a", "d", "m", "e">>, 3) >>

\* src/bad/B.txt, src/bad/c.txt (bad may fail to list), src/good/b.txt
TreeUnreadable ==
    << Dir(<<"s">>, 0, FALSE),
       Dir(<<"b", "a", "d">>, 1, TRUE),
       File(<<"B", ".", "t", "x", "t">>, 2),
       File(<<"c", ".", "t", "x", "t">>, 2),
       Dir(<<"g", "o", "o", "d">>, 1, FALSE),
       File(<<"b", ".", "t", "x", "t">>, 5) >>

\* src/dd/g.txt, src/ld -> dd, src/h.txt -> dd/g.txt, a device, a dangling link
TreeLinks ==
    << Dir(<<"s">>, 0, FALSE),
       Dir(<<"d", "d">>, 1, FALSE),
       File(<<"g", ".", "t", "x", "t">>, 2),
       Link(<<"l", "d">>, 1, 2),
       Link(<<"h", ".", "t", "x", "t">>, 1, 3),
       Special(<<"d", "e", "v">>, 1),
       Link(<<"x">>, 1, 0) >>

Trees == {TreeSameName, TreeNoExtension, TreeUnreadable, TreeLinks}

\* the entry a path resolves to, following symbolic links (0: nothing)
Resolve(t, n) ==
    IF t[n].kind = "link" THEN t[n].target ELSE n

\* Path.is_dir() and Path.is_file(): both follow symbolic links
IsDir(t, n) == Resolve(t, n) # 0 /\ t[Resolve(t, n)].kind = "dir"
IsFile(t, n) == Resolve(t, n) # 0 /\ t[Resolve(t, n)].kind = "file"

\* Path.iterdir() of directory d: its entries, in index order
RECURSIVE ChildrenFrom(_, _, _)
ChildrenFrom(t, d, n) ==
    IF n > Len(t) THEN <<>>
    ELSE IF t[n].parent = d THEN <<n>> \o ChildrenFrom(t, d, n + 1)
    ELSE ChildrenFrom(t, d, n + 1)
Children(t, d) == ChildrenFrom(t, d, 1)

(***************************************************************************)
(* State.                                                                  *)
(***************************************************************************)
VARIABLES
    tree,           \* the source tree on disk
    argv,           \* the command line: [ok, source, output]
    run,            \* which start of the program this is (1, 2, ...)
    faults,         \* OS-level faults injected so far
    cpc,            \* position of cli(): "start", "running", "exited"
    exitCode,       \* the process exit status, -1 while it runs
    mpc,            \* position of folder_copy
    source_folder,  \* folder_copy's resolved source path
    dest_folder,    \* folder_copy's resolved destination path
    stack,          \* the read_folder activations, innermost last
    files,          \* the files read_folder has collected
    wpc,            \* position of each copy_file coroutine
    new_file,       \* each copy_file's current candidate (new_file_name)
    rename_tries,   \* each file_path_build's counter
    locks,          \* _file_name_locks: key -> [locked, waiters]
    fs,             \* files below the destination folder: path -> content
    dirs,           \* category folders below the destination folder
    log,            \* the lines the process has handed to logging
    call,           \* a direct call of get_absolute_path and its outcome
    mr              \* a call of map_reduce (task_02.py): its position and values

vars == <<tree, argv, run, faults, cpc, exitCode, mpc, source_folder,
          dest_folder, stack, files, wpc, new_file, rename_tries, locks, fs,
          dirs, log, call, mr>>

envVars == <<tree, argv, run, call, mr>>
cliVars == <<cpc, exitCode>>
walkVars == <<source_folder, dest_folder, stack, files>>

\* the working directory of the process
Cwd == <<"/", "w">>

\* command lines: a usable one, one argparse rejects, one with an empty source
ArgvGood == [ok |-> TRUE, source |-> <<"s">>, output |-> <<"d", "i", "s", "t">>]
ArgvRejected == [ok |-> FALSE, source |-> <<"s">>, output |-> <<"d", "i", "s", "t">>]
ArgvEmptySource == [ok |-> TRUE, source |-> <<>>, output |-> <<"d", "i", "s", "t">>]
Argvs == {ArgvGood, ArgvRejected, ArgvEmptySource}

NoCall == [state |-> "none", path |-> <<>>, current_dir |-> None, cwd |-> <<>>,
           result |-> <<>>]
NoCandidate == [cat |-> <<>>, name |-> <<>>]
NoMapReduce == [pc |-> "none"]

Workers == DOMAIN wpc
Terminal == {"copied", "failed", "raised", "cancelled"}

\* file.name of a collected file: the name of the last entry of its path
FileName(f) == tree[f.path[Len(f.path)]].name

\* file.name.lower(), the key of the lock (line 90)
LockKeyExact(w) == FileName(files[w])
LockKey(w) == Lower(FileName(files[w]))

\* the state of a process that has just been started
ProcessInit ==
    /\ cpc = "start"
    /\ exitCode = -1
    /\ mpc = "idle"
    /\ source_folder = <<>>
    /\ dest_folder = <<>>
    /\ stack = <<>>
    /\ files = <<>>
    /\ wpc = <<>>
    /\ new_file = <<>>
    /\ rename_tries = <<>>
    /\ locks = <<>>

Init ==
    /\ tree \in Trees
    /\ argv \in Argvs
    /\ run = 1
    /\ faults = 0
    /\ ProcessInit
    /\ fs = <<>>
    /\ dirs = {}
    /\ log = {}
    /\ call = NoCall
    /\ mr = NoMapReduce

Logged(level, event, subject) ==
    log' = log \cup {[run |-> run, level |-> level, event |-> event,
                      subject |-> subject]}

(***************************************************************************)
(* cli() and folder_copy (lines 104-142).                                  *)
(***************************************************************************)
\* parser.parse_args(), line 134: argparse ends the process with status 2
\* (SystemExit, which "except Exception" does not catch) on a bad command line
CliParse ==
    /\ cpc = "start"
    /\ IF argv.ok
       THEN /\ cpc' = "running"
            /\ mpc' = "resolve"
            /\ exitCode' = exitCode
       ELSE /\ cpc' = "exited"
            /\ exitCode' = 2
            /\ mpc' = mpc
    /\ UNCHANGED <<envVars, faults, walkVars, wpc, new_file, rename_tries, locks,
                   fs, dirs, log>>

\* lines 113-116: both paths resolved, read_folder(source_folder) entered
ResolvePaths ==
    /\ mpc = "resolve"
    /\ LET s == get_absolute_path(argv.source, None, Cwd)
           d == get_absolute_path(argv.output, None, Cwd)
       IN  IF s.raised \/ d.raised
           THEN /\ mpc' = "raised"
                /\ UNCHANGED <<walkVars, log>>
           ELSE /\ mpc' = "walk"
                /\ source_folder' = s.path
                /\ dest_folder' = d.path
                /\ stack' = <<[path |-> <<1>>, dir |-> 1, pos |-> 1]>>
                /\ files' = <<>>
                /\ Logged("info", "process_folder", <<1>>)
    /\ UNCHANGED <<envVars, faults, cliVars, wpc, new_file, rename_tries, locks,
                   fs, dirs>>

(***************************************************************************)
(* read_folder (lines 69-86), one directory entry per step.                *)
(***************************************************************************)
Top == stack[Len(stack)]
Pop == SubSeq(stack, 1, Len(stack) - 1)
Advance == [stack EXCEPT ![Len(stack)].pos = @ + 1]
TopEntries == Children(tree, Top.dir)
TopChild == TopEntries[Top.pos]

\* a walk taken to be over as soon as one activation returns
AfterPopEarly(rest) == "launch"

\* the walk is over when the outermost read_folder has returned
AfterPop(rest) == IF rest = <<>> THEN "launch" ELSE "walk"

\* lines 83-86: the OSError is caught in the activation it was raised in,
\* which returns; the activations around it go on
Propagated == <<>>
Swallowed == Pop

\* lines 76-77: a directory (or a link to one) is walked recursively
WalkDir ==
    /\ mpc = "walk"
    /\ Top.pos <= Len(TopEntries)
    /\ IsDir(tree, TopChild)
    /\ stack' = Append(Advance, [path |-> Top.path \o <<TopChild>>,
                                 dir |-> Resolve(tree, TopChild), pos |-> 1])
    /\ Logged("info", "process_folder", Top.path \o <<TopChild>>)
    /\ UNCHANGED <<envVars, faults, cliVars, mpc, source_folder, dest_folder, files,
                   wpc, new_file, rename_tries, locks, fs, dirs>>

\* lines 78-79: a regular file (or a link to one) is collected
WalkFile ==
    /\ mpc = "walk"
    /\ Top.pos <= Len(TopEntries)
    /\ ~IsDir(tree, TopChild)
    /\ IsFile(tree, TopChild)
    /\ files' = Append(files, [path |-> Top.path \o <<TopChild>>,
                               node |-> Resolve(tree, TopChild)])
    /\ stack' = Advance
    /\ UNCHANGED <<envVars, faults, cliVars, mpc, source_folder, dest_folder,
                   wpc, new_file, rename_tries, locks, fs, dirs, log>>

\* lines 80-82: anything else is skipped with a warning
WalkSkip ==
    /\ mpc = "walk"
    /\ Top.pos <= Len(TopEntries)
    /\ ~IsDir(tree, TopChild)
    /\ ~IsFile(tree, TopChild)
    /\ stack' = Advance
    /\ Logged("warn", "skip", Top.path \o <<TopChild>>)
    /\ UNCHANGED <<envVars, faults, cliVars, mpc, source_folder, dest_folder, files,
                   wpc, new_file, rename_tries, locks, fs, dirs>>

\* lines 83-86: iterdir() raises OSError, at its start or between two entries;
\* the activation logs it and returns what it has collected
WalkError ==
    /\ mpc = "walk"
    /\ tree[Top.dir].unreadable
    /\ Top.pos <= Len(TopEntries) \/ Top.pos = 1
    /\ faults < MaxFaults
    /\ faults' = faults + 1
    /\ stack' = Swallowed
    /\ mpc' = AfterPop(Swallowed)
    /\ Logged("info", "walk_failed", Top.path)
    /\ UNCHANGED <<envVars, cliVars, source_folder, dest_folder, files,
                   wpc, new_file, rename_tries, locks, fs, dirs>>

\* line 86: the listing is exhausted, the activation returns its files
WalkReturn ==
    /\ mpc = "walk"
    /\ Top.pos > Len(TopEntries)
    /\ stack' = Pop
    /\ mpc' = AfterPop(Pop)
    /\ UNCHANGED <<envVars, faults, cliVars, source_folder, dest_folder, files,
                   wpc, new_file, rename_tries, locks, fs, dirs, log>>

(***************************************************************************)
(* folder_copy line 117: asyncio.gather over one copy_file per file.       *)
(***************************************************************************)
\* the coroutines gather wraps in tasks: one for each collected file
Launched == 1..Len(files)

Launch ==
    /\ mpc = "launch"
    /\ mpc' = "gather"
    /\ wpc' = [w \in Launched |-> "created"]
    /\ new_file' = [w \in Launched |-> NoCandidate]
    /\ rename_tries' = [w \in Launched |-> 0]
    /\ UNCHANGED <<envVars, faults, cliVars, walkVars, locks, fs, dirs, log>>

(***************************************************************************)
(* _file_name_locks (line 18) and asyncio.Lock.                            *)
(***************************************************************************)
FreshLock == [locked |-> FALSE, waiters |-> <<>>]

\* defaultdict lookup: the entry of the key, created on first reference
Lookup(key) == IF key \in DOMAIN locks THEN locks[key] ELSE FreshLock

\* a registry that forgets every other entry
StoreOnly(key, lock) == [k \in {key} |-> lock]

\* the registry with the entry of key set to lock
Store(key, lock) ==
    [k \in DOMAIN locks \cup {key} |-> IF k = key THEN lock ELSE locks[k]]

\* a lock that never makes anybody wait
CanAcquireAlways(lock) == TRUE

\* Lock.acquire() returns at once only if the lock is free and nobody waits
CanAcquire(lock) == ~lock.locked /\ lock.waiters = <<>>

\* a way out of copy_file that keeps the lock
LockKept(w) == locks

\* Lock.release(), at the end of "async with lock" on every way out
Released(w) == Store(LockKey(w), [Lookup(LockKey(w)) EXCEPT !.locked = FALSE])

\* the sequence q without its element x
Without(q, x) == SelectSeq(q, LAMBDA y : y # x)

(***************************************************************************)
(* copy_file (lines 89-101) with file_path_build (lines 45-66) inlined:    *)
(* one step per await.                                                     *)
(***************************************************************************)
Exists(path) == path \in DOMAIN fs

\* the destination tree with path holding content
Written(path, content) ==
    [p \in DOMAIN fs \cup {path} |-> IF p = path THEN content ELSE fs[p]]

Content(w, done) ==
    [src |-> files[w].path, run |-> run, done |-> done]

\* lines 55-57, run without suspension once the lock is held
EnterCritical(w) ==
    /\ new_file' = [new_file EXCEPT ![w] = InitialCandidate(FileName(files[w]), DotIsSuffix)]
    /\ rename_tries' = [rename_tries EXCEPT ![w] = 0]
    /\ wpc' = [wpc EXCEPT ![w] = "probe"]

\* every task has run up to its first suspension: the event loop runs the
\* first step of each new task, in order, before any awaited result arrives
AllStarted == \A v \in Workers : wpc[v] # "created"

\* lines 90-91: tasks start in the order gather created them; the lock is
\* taken at once or the task queues behind the holder
Acquire(w) ==
    /\ mpc = "gather"
    /\ wpc[w] = "created"
    /\ \A v \in Workers : v < w => wpc[v] # "created"
    /\ LET lock == Lookup(LockKey(w))
       IN  IF CanAcquire(lock)
           THEN /\ locks' = Store(LockKey(w), [lock EXCEPT !.locked = TRUE])
                /\ EnterCritical(w)
           ELSE /\ locks' = Store(LockKey(w),
                                  [lock EXCEPT !.waiters = Append(@, w)])
                /\ wpc' = [wpc EXCEPT ![w] = "waiting"]
                /\ UNCHANGED <<new_file, rename_tries>>
    /\ UNCHANGED <<envVars, faults, cliVars, mpc, walkVars, fs, dirs, log>>

\* the first waiter of a released lock takes it
Wake(w) ==
    /\ mpc = "gather"
    /\ wpc[w] = "waiting"
    /\ AllStarted
    /\ LET lock == locks[LockKey(w)]
       IN  /\ ~lock.locked
           /\ Head(lock.waiters) = w
           /\ locks' = Store(LockKey(w),
                             [locked |-> TRUE, waiters |-> Tail(lock.waiters)])
    /\ EnterCritical(w)
    /\ UNCHANGED <<envVars, faults, cliVars, mpc, walkVars, fs, dirs, log>>

\* lines 61-66: one existence check of the loop
Probe(w) ==
    /\ mpc = "gather"
    /\ wpc[w] = "probe"
    /\ AllStarted
    /\ IF Exists(new_file[w])
       THEN /\ rename_tries' = [rename_tries EXCEPT ![w] = @ + 1]
            /\ new_file' = [new_file EXCEPT ![w] =
                   NextCandidate(@, FileName(files[w]), rename_tries[w] + 1, DotIsSuffix)]
            /\ wpc' = wpc
       ELSE /\ wpc' = [wpc EXCEPT ![w] = "mkdir"]
            /\ UNCHANGED <<new_file, rename_tries>>
    /\ UNCHANGED <<envVars, faults, cliVars, mpc, walkVars, locks, fs, dirs, log>>

\* line 61: exists() raises (for instance PermissionError on the category
\* folder); the call is outside the try block, so copy_file raises
ProbeRaise(w) ==
    /\ mpc = "gather"
    /\ wpc[w] = "probe"
    /\ AllStarted
    /\ faults < MaxFaults
    /\ faults' = faults + 1
    /\ wpc' = [wpc EXCEPT ![w] = "raised"]
    /\ locks' = Released(w)
    /\ UNCHANGED <<envVars, cliVars, mpc, walkVars, new_file, rename_tries, fs,
                   dirs, log>>

\* line 96: mkdir(parents=True, exist_ok=True)
Mkdir(w) ==
    /\ mpc = "gather"
    /\ wpc[w] = "mkdir"
    /\ AllStarted
    /\ dirs' = dirs \cup {new_file[w].cat}
    /\ wpc' = [wpc EXCEPT ![w] = "copy_open"]
    /\ UNCHANGED <<envVars, faults, cliVars, mpc, walkVars, new_file, rename_tries,
                   locks, fs, log>>

\* an OSError that would leave copy_file instead of being caught
FailedRaised(w) ==
    /\ faults < MaxFaults
    /\ faults' = faults + 1
    /\ wpc' = [wpc EXCEPT ![w] = "raised"]
    /\ locks' = Released(w)
    /\ log' = log

\* lines 100-101: the OSError of mkdir or copyfile is logged, copy_file returns
FailedLogged(w) ==
    /\ faults < MaxFaults
    /\ faults' = faults + 1
    /\ wpc' = [wpc EXCEPT ![w] = "failed"]
    /\ locks' = Released(w)
    /\ Logged("error", "copy_failed", <<w, new_file[w]>>)

MkdirFail(w) ==
    /\ mpc = "gather"
    /\ wpc[w] = "mkdir"
    /\ AllStarted
    /\ FailedLogged(w)
    /\ UNCHANGED <<envVars, cliVars, mpc, walkVars, new_file, rename_tries, fs, dirs>>

\* line 98, first half: copyfile opens (creates or truncates) the target
CopyOpen(w) ==
    /\ mpc = "gather"
    /\ wpc[w] = "copy_open"
    /\ AllStarted
    /\ fs' = Written(new_file[w], Content(w, FALSE))
    /\ wpc' = [wpc EXCEPT ![w] = "copy_write"]
    /\ UNCHANGED <<envVars, faults, cliVars, mpc, walkVars, new_file, rename_tries,
                   locks, dirs, log>>

\* copyfile fails before the target is created
CopyOpenFail(w) ==
    /\ mpc = "gather"
    /\ wpc[w] = "copy_open"
    /\ AllStarted
    /\ FailedLogged(w)
    /\ UNCHANGED <<envVars, cliVars, mpc, walkVars, new_file, rename_tries, fs, dirs>>

\* lines 98-99, second half: the bytes are written, the copy is logged and
\* the lock released
CopyWrite(w) ==
    /\ mpc = "gather"
    /\ wpc[w] = "copy_write"
    /\ AllStarted
    /\ fs' = Written(new_file[w], Content(w, TRUE))
    /\ wpc' = [wpc EXCEPT ![w] = "copied"]
    /\ locks' = Released(w)
    /\ Logged("info", "copied", <<w, new_file[w]>>)
    /\ UNCHANGED <<envVars, faults, cliVars, mpc, walkVars, new_file, rename_tries,
                   dirs>>

\* copyfile fails while writing: the target stays behind, incomplete
CopyWriteFail(w) ==
    /\ mpc = "gather"
    /\ wpc[w] = "copy_write"
    /\ AllStarted
    /\ FailedLogged(w)
    /\ UNCHANGED <<envVars, cliVars, mpc, walkVars, new_file, rename_tries, fs, dirs>>

(***************************************************************************)
(* The end of gather, of folder_copy and of the process.                   *)
(***************************************************************************)
\* gather's result is ready once every task has ended
AllEnded == \A w \in Workers : wpc[w] \in Terminal

\* line 117 returns: every copy_file has returned
GatherReturn ==
    /\ mpc = "gather"
    /\ AllEnded
    /\ \A w \in Workers : wpc[w] # "raised"
    /\ mpc' = "returned"
    /\ UNCHANGED <<envVars, faults, cliVars, walkVars, wpc, new_file, rename_tries,
                   locks, fs, dirs, log>>

\* line 117 raises: gather (return_exceptions=False) hands the first
\* exception of a task to folder_copy at once; the other tasks are not
\* cancelled and keep running
GatherRaise ==
    /\ mpc = "gather"
    /\ \E w \in Workers : wpc[w] = "raised"
    /\ mpc' = "raised"
    /\ UNCHANGED <<envVars, faults, cliVars, walkVars, wpc, new_file, rename_tries,
                   locks, fs, dirs, log>>

\* asyncio.run (line 137) cancels the tasks folder_copy left behind: each
\* gets CancelledError at its await and leaves "async with" (a waiter leaves
\* the queue); a copy already writing in its thread may still complete
Cancel(w) ==
    /\ mpc = "raised"
    /\ wpc[w] \notin Terminal
    /\ wpc' = [wpc EXCEPT ![w] = "cancelled"]
    /\ locks' = IF wpc[w] = "created" THEN locks
                ELSE IF wpc[w] = "waiting"
                THEN Store(LockKey(w), [locks[LockKey(w)] EXCEPT
                                           !.waiters = Without(@, w)])
                ELSE Released(w)
    /\ \/ fs' = fs
       \/ /\ wpc[w] = "copy_write"
          /\ fs' = Written(new_file[w], Content(w, TRUE))
    /\ UNCHANGED <<envVars, faults, cliVars, mpc, walkVars, new_file, rename_tries,
                   dirs, log>>

\* lines 139-142: the exception of folder_copy is logged, exit(0)
CliCatch ==
    /\ cpc = "running"
    /\ mpc = "raised"
    /\ AllEnded
    /\ cpc' = "exited"
    /\ exitCode' = 0
    /\ Logged("error", "unhandled", <<>>)
    /\ UNCHANGED <<envVars, faults, mpc, walkVars, wpc, new_file, rename_tries,
                   locks, fs, dirs>>

\* lines 138 and 142: completion is logged, exit(0)
CliDone ==
    /\ cpc = "running"
    /\ mpc = "returned"
    /\ cpc' = "exited"
    /\ exitCode' = 0
    /\ Logged("info", "completed", <<>>)
    /\ UNCHANGED <<envVars, faults, mpc, walkVars, wpc, new_file, rename_tries,
                   locks, fs, dirs>>

\* the program is started again with the same command line: a new process,
\* the same disk
Restart ==
    /\ cpc = "exited"
    /\ run < MaxRuns
    /\ run' = run + 1
    /\ cpc' = "start"
    /\ exitCode' = -1
    /\ mpc' = "idle"
    /\ source_folder' = <<>>
    /\ dest_folder' = <<>>
    /\ stack' = <<>>
    /\ files' = <<>>
    /\ wpc' = <<>>
    /\ new_file' = <<>>
    /\ rename_tries' = <<>>
    /\ locks' = <<>>
    /\ UNCHANGED <<tree, argv, call, mr, faults, fs, dirs>>
    /\ log' = {}

Next ==
    \/ CliParse
    \/ ResolvePaths
    \/ WalkDir
    \/ WalkFile
    \/ WalkSkip
    \/ WalkError
    \/ WalkReturn
    \/ Launch
    \/ \E w \in Workers : Acquire(w)
    \/ \E w \in Workers : Wake(w)
    \/ \E w \in Workers : Probe(w)
    \/ \E w \in Workers : ProbeRaise(w)
    \/ \E w \in Workers : Mkdir(w)
    \/ \E w \in Workers : MkdirFail(w)
    \/ \E w \in Workers : CopyOpen(w)
    \/ \E w \in Workers : CopyOpenFail(w)
    \/ \E w \in Workers : CopyWrite(w)
    \/ \E w \in Workers : CopyWriteFail(w)
    \/ GatherReturn
    \/ GatherRaise
    \/ \E w \in Workers : Cancel(w)
    \/ CliCatch
    \/ CliDone
    \/ Restart

Spec == Init /\ [][Next]_vars

(***************************************************************************)
(* get_absolute_path called directly, with every kind of argument.         *)
(***************************************************************************)
\* "", "/", "/a", "a", "a/b"
PathArgs == {<<>>, <<"/">>, <<"/", "a">>, <<"a">>, <<"a", "/", "b">>}
\* no current_dir, "", "/", "/b", "b", "b/c"
DirArgs == {None, Some(<<>>), Some(<<"/">>), Some(<<"/", "b">>), Some(<<"b">>),
            Some(<<"b", "/", "c">>)}
\* the working directory is absolute: "/", "/w", "/w/x", "/y"
CwdArgs == {<<"/">>, Cwd, <<"/", "w", "/", "x">>, <<"/", "y">>}

InitPath ==
    /\ tree = TreeNoExtension
    /\ argv = ArgvGood
    /\ run = 1
    /\ faults = 0
    /\ ProcessInit
    /\ fs = <<>>
    /\ dirs = {}
    /\ log = {}
    /\ \E p \in PathArgs, d \in DirArgs, c \in CwdArgs :
           call = [state |-> "pending", path |-> p, current_dir |-> d, cwd |-> c,
                   result |-> <<>>]
    /\ mr = NoMapReduce

GetAbsolutePathCall ==
    /\ call.state = "pending"
    /\ LET r == get_absolute_path(call.path, call.current_dir, call.cwd)
       IN  call' = [call EXCEPT !.state = IF r.raised THEN "raised" ELSE "returned",
                                !.result = r.path]
    /\ UNCHANGED <<tree, argv, run, faults, cpc, exitCode, mpc, source_folder,
                   dest_folder, stack, files, wpc, new_file, rename_tries, locks,
                   fs, dirs, log, mr>>

NextPath == GetAbsolutePathCall

SpecPath == InitPath /\ [][NextPath]_vars

(***************************************************************************)
(* task_02.py: map_reduce, a word count over a thread pool.  A text is a   *)
(* tuple of characters, a word a non-empty tuple of non-blank characters.  *)
(***************************************************************************)
MaxText == 4

\* characters of the texts: letters, a blank, one of string.punctuation
Letters == {"a", "b"}
Whitespace == {" "}
Punctuation == {","}
Alphabet == Letters \cup Whitespace \cup Punctuation

\* the texts of at most n characters
Texts(n) == UNION {[1..k -> Alphabet] : k \in 0..n}

\* search_words: None or [], ["a"], ["a", "ab"]
SearchArgs == {<<>>, << <<"a">> >>, << <<"a">>, <<"a", "b">> >>}

\* lines 33-40: text.translate(...) deletes every punctuation character
remove_punctuation(text) == SelectSeq(text, LAMBDA c : c \notin Punctuation)

\* line 87: str.split() cuts at runs of whitespace and yields no empty word;
\* word is the word being read, i the next character
RECURSIVE SplitFrom(_, _, _)
SplitFrom(text, i, word) ==
    IF i > Len(text) THEN (IF word = <<>> THEN <<>> ELSE <<word>>)
    ELSE IF text[i] \in Whitespace
    THEN (IF word = <<>> THEN <<>> ELSE <<word>>) \o SplitFrom(text, i + 1, <<>>)
    ELSE SplitFrom(text, i + 1, Append(word, text[i]))

Split(text) == SplitFrom(text, 1, <<>>)

\* "word in search_words"
InWords(word, search_words) ==
    \E i \in 1..Len(search_words) : search_words[i] = word

\* lines 90-91: only the words searched for, when there are any
Filtered(words, search_words) ==
    IF search_words # <<>>
    THEN SelectSeq(words, LAMBDA w : InWords(w, search_words))
    ELSE words

\* lines 43-50
map_function(word) == <<word, 1>>

\* the position of key among the groups (0: none)
GroupOf(groups, key) ==
    IF \E j \in 1..Len(groups) : groups[j][1] = key
    THEN CHOOSE j \in 1..Len(groups) : groups[j][1] = key
    ELSE 0

\* a shuffle that keeps only the last value of a key
RECURSIVE ShuffleLastInto(_, _, _)
ShuffleLastInto(groups, mapped_values, i) ==
    IF i > Len(mapped_values) THEN groups
    ELSE LET key   == mapped_values[i][1]
             value == mapped_values[i][2]
             j     == GroupOf(groups, key)
         IN  ShuffleLastInto(IF j = 0 THEN Append(groups, <<key, <<value>> >>)
                             ELSE [groups EXCEPT ![j] = <<key, <<value>> >>],
                             mapped_values, i + 1)
shuffle_function_last(mapped_values) == ShuffleLastInto(<<>>, mapped_values, 1)

\* lines 59-61: shuffled[key].append(value) for each pair in turn; a
\* dictionary keeps its keys in the order of their first insertion
RECURSIVE ShuffleInto(_, _, _)
ShuffleInto(groups, mapped_values, i) ==
    IF i > Len(mapped_values) THEN groups
    ELSE LET key   == mapped_values[i][1]
             value == mapped_values[i][2]
             j     == GroupOf(groups, key)
         IN  ShuffleInto(IF j = 0 THEN Append(groups, <<key, <<value>> >>)
                         ELSE [groups EXCEPT ![j] = <<key, Append(@[2], value)>>],
                         mapped_values, i + 1)

\* lines 53-62: shuffled.items()
shuffle_function(mapped_values) == ShuffleInto(<<>>, mapped_values, 1)

\* sum(values)
RECURSIVE Sum(_)
Sum(values) == IF values = <<>> THEN 0 ELSE Head(values) + Sum(Tail(values))

\* lines 65-73
reduce_function(key_values) == <<key_values[1], Sum(key_values[2])>>

\* dict(pairs): a later pair of a key replaces an earlier one
ToDict(pairs) ==
    [k \in {pairs[i][1] : i \in 1..Len(pairs)} |->
        pairs[CHOOSE i \in 1..Len(pairs) :
                  /\ pairs[i][1] = k
                  /\ \A j \in (i + 1)..Len(pairs) : pairs[j][1] # k][2]]

\* the result of a pool task that has not run yet
Pending == <<>>

InitMapReduce ==
    /\ tree = TreeNoExtension
    /\ argv = ArgvGood
    /\ run = 1
    /\ faults = 0
    /\ ProcessInit
    /\ fs = <<>>
    /\ dirs = {}
    /\ log = {}
    /\ call = NoCall
    /\ \E t \in Texts(MaxText), s \in SearchArgs :
           mr = [pc |-> "called", text |-> t, search_words |-> s, words |-> <<>>,
                 mapped_values |-> <<>>, shuffled_values |-> <<>>,
                 reduced_values |-> <<>>, result |-> <<>>]

mainVars == <<tree, argv, run, faults, cpc, exitCode, mpc, source_folder,
              dest_folder, stack, files, wpc, new_file, rename_tries, locks,
              fs, dirs, log, call>>

\* lines 86-94: the words are prepared and one map task per word is
\* submitted to the pool
MapSubmit ==
    /\ mr.pc = "called"
    /\ LET words == Filtered(Split(remove_punctuation(mr.text)), mr.search_words)
       IN  mr' = [mr EXCEPT !.pc = "map",
                            !.words = words,
                            !.mapped_values = [i \in 1..Len(words) |-> Pending]]
    /\ UNCHANGED mainVars

\* a pool thread runs map_function on word i, in any order among the tasks
MapTask(i) ==
    /\ mr.pc = "map"
    /\ mr.mapped_values[i] = Pending
    /\ mr' = [mr EXCEPT !.mapped_values[i] = map_function(mr.words[i])]
    /\ UNCHANGED mainVars

\* lines 95-101: executor.map yields the results in the order of the words
\* once all are there; they are shuffled and one reduce task per key is
\* submitted
ReduceSubmit ==
    /\ mr.pc = "map"
    /\ \A i \in 1..Len(mr.words) : mr.mapped_values[i] # Pending
    /\ LET shuffled == shuffle_function(mr.mapped_values)
       IN  mr' = [mr EXCEPT !.pc = "reduce",
                            !.shuffled_values = shuffled,
                            !.reduced_values = [j \in 1..Len(shuffled) |-> Pending]]
    /\ UNCHANGED mainVars

\* a pool thread runs reduce_function on group j, in any order
ReduceTask(j) ==
    /\ mr.pc = "reduce"
    /\ mr.reduced_values[j] = Pending
    /\ mr' = [mr EXCEPT !.reduced_values[j] = reduce_function(mr.shuffled_values[j])]
    /\ UNCHANGED mainVars

\* lines 102-104: the results in the order of the groups, as a dictionary
MapReduceReturn ==
    /\ mr.pc = "reduce"
    /\ \A j \in 1..Len(mr.shuffled_values) : mr.reduced_values[j] # Pending
    /\ mr' = [mr EXCEPT !.pc = "returned", !.result = ToDict(mr.reduced_values)]
    /\ UNCHANGED mainVars

NextMapReduce ==
    \/ MapSubmit
    \/ \E i \in 1..Len(mr.words) : MapTask(i)
    \/ ReduceSubmit
    \/ \E j \in 1..Len(mr.shuffled_values) : ReduceTask(j)
    \/ MapReduceReturn

SpecMapReduce == InitMapReduce /\ [][NextMapReduce]_vars


(***************************************************************************)
(* Properties.                                                             *)
(***************************************************************************)
\* a copy_file that holds its lock: naming, directory creation or byte copy
InCritical(w) == wpc[w] \in {"probe", "mkdir", "copy_open", "copy_write"}

\* a copy_file whose copyfile has created its target
HasWritten(w) == wpc[w] \in {"copy_write", "copied"}

\* C1: no two workers of a run copy to the same destination path, whatever
\* their names are (so no file written by one is overwritten by another).
C1_NoSharedDestination ==
    \A v, w \in Workers :
        (v # w /\ HasWritten(v) /\ HasWritten(w)) => new_file[v] # new_file[w]

\* the file name the claims give a copy with counter n: "<stem>.<ext>" for 0,
\* "<stem> (n).<ext>" otherwise
ClaimedName(name, n) ==
    (IF n = 0 THEN Stem(name, DotIsSuffix)
     ELSE Stem(name, DotIsSuffix) \o <<" ", "(">> \o Str(n) \o <<")">>)
        \o <<".">> \o FileExtension(name, DotIsSuffix)

\* the files of category folder cat
InFolder(cat) == {p \in DOMAIN fs : p.cat = cat}

\* C2: when no copy of the run fails, two files of the same name end up at
\* two distinct paths of one category folder that differ only by the
\* counter suffix: "<stem>.<ext>" and "<stem> (1).<ext>" when nothing else
\* is in that folder of an initially empty destination.
C2_SameNameTwoCopies ==
    (mpc = "returned" /\ \A u \in Workers : wpc[u] = "copied") =>
        \A v, w \in Workers :
            (v # w /\ FileName(files[v]) = FileName(files[w])) =>
                /\ new_file[v] # new_file[w]
                /\ new_file[v].cat = new_file[w].cat
                /\ \E n, m \in 0..Cardinality(DOMAIN fs) :
                       /\ n # m
                       /\ new_file[v].name = ClaimedName(FileName(files[v]), n)
                       /\ new_file[w].name = ClaimedName(FileName(files[w]), m)
                       /\ (run = 1 /\ InFolder(new_file[v].cat) = {new_file[v], new_file[w]})
                              => {n, m} = {0, 1}

\* C3: at most one worker per lower-cased file name is inside the critical
\* section of copy_file; while one is probing, none of the same lower-cased
\* name is naming, creating the directory or copying.
C3_MutualExclusion ==
    \A v, w \in Workers :
        (v # w /\ Lower(FileName(files[v])) = Lower(FileName(files[w])))
            => ~(InCritical(v) /\ InCritical(w))

\* C3 witness: two workers whose names differ only in letter case, one
\* copying inside the critical section, the other waiting for the lock.
C3_Witness ==
    \E v, w \in Workers :
        /\ FileName(files[v]) # FileName(files[w])
        /\ Lower(FileName(files[v])) = Lower(FileName(files[w]))
        /\ wpc[v] = "copy_write"
        /\ wpc[w] = "waiting"

\* C4: one worker per collected file, and when folder_copy returns or raises
\* every worker has ended (none is running or waiting for a lock).
C4_FireAndCollect ==
    /\ mpc \in {"gather", "returned"} => Workers = 1..Len(files)
    /\ mpc \in {"returned", "raised"} => AllEnded

\* the line copy_file logs for worker w
CopyLine(w, level, event) ==
    [run |-> run, level |-> level, event |-> event, subject |-> <<w, new_file[w]>>]

\* failures are logged, and folder_copy returns with every worker at its end
C5_Contained ==
    /\ \A w \in Workers : wpc[w] = "failed" => CopyLine(w, "error", "copy_failed") \in log
    /\ mpc = "returned" =>
           \A w \in Workers :
               \/ wpc[w] = "failed"
               \/ wpc[w] = "copied" /\ CopyLine(w, "info", "copied") \in log

\* the step in which mkdir or copyfile fails in worker w
C5_FailureStep ==
    \A w \in Workers :
        (/\ mpc = "gather"
         /\ wpc[w] \in {"mkdir", "copy_open", "copy_write"}
         /\ faults' = faults + 1
         /\ wpc'[w] # wpc[w])
        => /\ wpc'[w] = "failed"
           /\ mpc' = "gather"
           /\ ~locks'[LockKey(w)].locked
           /\ \A v \in Workers : v # w => wpc'[v] = wpc[v]

\* C5: an OS-level failure of mkdir or copyfile is logged and copy_file
\* returns: the worker ends "failed", never "raised", folder_copy and the
\* other workers are not touched by the step, and when folder_copy returns
\* every worker that did not fail itself has copied its file.
C5_FailureContained == []C5_Contained /\ [][C5_FailureStep]_vars

\* C5 witness: folder_copy has returned, one worker failed and a sibling
\* copied its file.
C5_Witness ==
    /\ mpc = "returned"
    /\ \E v, w \in Workers : wpc[v] = "failed" /\ wpc[w] = "copied"

\* both runs of a twice-started program have ended without any failure
TwoCleanRuns ==
    cpc = "exited" /\ run = 2 /\ mpc = "returned" /\ faults = 0

\* the copies of the file collected under path that a run has left behind
CopiesOf(path, r) ==
    {p \in DOMAIN fs : fs[p] = [src |-> path, run |-> r, done |-> TRUE]}

\* the name of a copy whose stem carries the counter " (1)"
FirstCounterNames(name) ==
    { Stem(name, DotIsSuffix) \o <<" ", "(", "1", ")">> \o Suffix(name, DotIsSuffix),
      ClaimedName(name, 1) }

\* what C6 promises file i of the second run
TwoCopies(i) ==
    LET name == FileName(files[i])
        first == InitialCandidate(name, DotIsSuffix)
    IN  /\ CopiesOf(files[i].path, 1) = {first}
        /\ \E p \in DOMAIN fs :
               /\ CopiesOf(files[i].path, 2) = {p}
               /\ p # first
               /\ p.cat = first.cat
               /\ p.name \in FirstCounterNames(name)

PlainNames ==
    \A i, j \in 1..Len(files) :
        i # j =>
            /\ FileName(files[i]) # FileName(files[j])
            /\ FileName(files[j]) \notin FirstCounterNames(FileName(files[i]))

RECURSIVE PathTo(_)
PathTo(n) == IF tree[n].parent = 0 THEN <<n>> ELSE PathTo(tree[n].parent) \o <<n>>

\* regular files none of whose enclosing directories can fail to list
SafeFiles ==
    {n \in 1..Len(tree) :
        /\ tree[n].kind = "file"
        /\ \A j \in 1..Len(PathTo(n)) : ~tree[PathTo(n)[j]].unreadable}

\* the worker of the file collected under path
WorkersOf(path) == {i \in 1..Len(files) : files[i].path = path}

\* C7: an OSError while listing a directory never leaves the walk (the only
\* way folder_copy raises before a worker exists is an empty path), the walk
\* goes on in the enclosing directory, and every regular file of the
\* directories that list without error is returned and handed to a worker,
\* which has run to its end (copied, or its own failure logged) when
\* folder_copy returns.
C7_WalkErrorSwallowed ==
    /\ (mpc = "raised" /\ Workers = {}) => argv.source = <<>>
    /\ mpc \in {"launch", "gather", "returned"} =>
           \A n \in SafeFiles : WorkersOf(PathTo(n)) # {}
    /\ mpc = "returned" =>
           \A n \in SafeFiles : \A i \in WorkersOf(PathTo(n)) :
               wpc[i] \in {"copied", "failed"}

\* C7 witness: a directory failed to list, folder_copy has returned and a
\* file of a sibling directory, listed after the failure, has been copied.
C7_Witness ==
    /\ mpc = "returned"
    /\ \E l \in log : l.event = "walk_failed" /\ l.run = run
    /\ \E n \in SafeFiles : \E i \in WorkersOf(PathTo(n)) :
           /\ Len(files[i].path) > 2
           /\ wpc[i] = "copied"
           /\ fs[new_file[i]] = Content(i, TRUE)

\* C8: an entry that is neither a directory nor a regular file (a symbolic
\* link, a device, ...) never contributes to the walk's result: no collected
\* file is such an entry or was reached through one.
C8_NonRegularSkipped ==
    \A i \in 1..Len(files) :
        \A j \in 1..Len(files[i].path) :
            tree[files[i].path[j]].kind \notin {"link", "special"}

\* C9: get_absolute_path fails on the empty path, returns an absolute path
\* unchanged, and returns an absolute path for every non-empty relative path,
\* whatever current_dir is (absent, absolute or relative).
C9_AbsoluteResult ==
    call.state \in {"returned", "raised"} =>
        /\ call.path = <<>> => call.state = "raised"
        /\ IsAbsolute(call.path) =>
               call.state = "returned" /\ call.result = call.path
        /\ (call.path # <<>> /\ ~IsAbsolute(call.path)) =>
               call.state = "returned" /\ IsAbsolute(call.result)

\* C10: cli() always ends with exit status 0, also on a command line that
\* argparse rejects.
C10_ExitZero == cpc = "exited" => exitCode = 0

\* a copy_file that has left the loop of file_path_build with its destination
Chosen(w) == wpc[w] \in {"mkdir", "copy_open", "copy_write", "copied", "failed"}

\* C11: a worker that found nothing at its first candidate (counter 0) has
\* the destination <category>/"<stem>.<extension>", the extension being the
\* suffix without its dot and the category the extension, or
\* "without_extension" for an empty one: "readme" goes to
\* without_extension/"readme.", "a.txt" to txt/"a.txt".
C11_InitialCandidate ==
    \A w \in Workers :
        (Chosen(w) /\ rename_tries[w] = 0) =>
            LET name == FileName(files[w])
                ext  == FileExtension(name, DotIsSuffix)
            IN  /\ new_file[w].name = Stem(name, DotIsSuffix) \o <<".">> \o ext
                /\ new_file[w].cat = (IF ext = <<>> THEN WithoutExtension ELSE ext)
                /\ name = <<"r", "e", "a", "d", "m", "e">> =>
                       new_file[w] = [cat  |-> WithoutExtension,
                                      name |-> <<"r", "e", "a", "d", "m", "e", ".">>]
                /\ name = <<"a", ".", "t", "x", "t">> =>
                       new_file[w] = [cat  |-> <<"t", "x", "t">>,
                                      name |-> <<"a", ".", "t", "x", "t">>]

\* C11 witness: a file without extension copied under its first candidate.
C11_Witness ==
    \E w \in Workers :
        /\ FileName(files[w]) = <<"r", "e", "a", "d", "m", "e">>
        /\ rename_tries[w] = 0
        /\ wpc[w] = "copied"
        /\ new_file[w].cat = WithoutExtension

\* the largest number of a non-empty finite set of numbers
MaxOf(S) == CHOOSE m \in S : \A x \in S : x <= m

\* the smallest number of a non-empty finite set of numbers
MinOf(S) == CHOOSE m \in S : \A x \in S : m <= x

\* the workers with a destination whose lower-cased name is that of w
ChosenLike(w) ==
    {v \in Workers : Chosen(v) /\ Lower(FileName(files[v])) = Lower(FileName(files[w]))}

SameName(w) == {v \in Workers \ {w} : FileName(files[v]) = FileName(files[w])}

\* the candidate of counter n for a file called name
CandidateOf(name, n) ==
    IF n = 0 THEN InitialCandidate(name, DotIsSuffix)
    ELSE NextCandidate(InitialCandidate(name, DotIsSuffix), name, n, DotIsSuffix)

\* no collected file of another name is named like a counter candidate of w,
\* and w is not named like a counter candidate of one of them
Undisturbed(w) ==
    \A i \in 1..Len(files) :
        FileName(files[i]) # FileName(files[w]) =>
            \A n \in 1..(Len(files) + Cardinality(DOMAIN fs)) :
                /\ CandidateOf(FileName(files[i]), 0) # CandidateOf(FileName(files[w]), n)
                /\ CandidateOf(FileName(files[w]), 0) # CandidateOf(FileName(files[i]), n)

\* the step that ends the loop of file_path_build of w: its counter is one
\* more than the largest counter chosen before by a worker of the same name,
\* and 0 for the first of them in an empty destination
C12_Step ==
    \A w \in Workers :
        (wpc[w] = "probe" /\ w \in DOMAIN wpc' /\ wpc'[w] = "mkdir"
            /\ Undisturbed(w) /\ \A v \in SameName(w) : wpc[v] # "failed") =>
            LET before == {v \in SameName(w) : Chosen(v)}
            IN  /\ before # {} =>
                       rename_tries[w] = MaxOf({rename_tries[v] : v \in before}) + 1
                /\ (before = {} /\ run = 1) => rename_tries[w] = 0

C13_NoPropagation ==
    /\ \A w \in Workers : wpc[w] \notin {"raised", "cancelled"}
    /\ Workers # {} => mpc # "raised"

\* C14: a name lock is held only by a worker that is still inside its
\* critical section: a worker that has ended in any way (copied, logged
\* failure, exception of the name computation, cancellation) has released
\* it, a free lock with waiters goes to a worker that still waits, and once
\* every worker has ended no lock is held and nobody queues.
C14_LockReleased ==
    /\ \A k \in DOMAIN locks :
           /\ locks[k].locked =>
                  \E w \in Workers :
                      InCritical(w) /\ Lower(FileName(files[w])) = k
           /\ \A i \in 1..Len(locks[k].waiters) :
                  /\ locks[k].waiters[i] \in Workers
                  /\ wpc[locks[k].waiters[i]] = "waiting"
    /\ AllEnded =>
           \A k \in DOMAIN locks : locks[k] = [locked |-> FALSE, waiters |-> <<>>]

\* C14 witness: every worker has ended, one by the exception of its name
\* computation, one cancelled while it queued for the same lock, one after
\* its copy; their locks are free.
C14_Witness ==
    /\ AllEnded
    /\ \E v, w \in Workers :
           /\ wpc[v] = "raised"
           /\ wpc[w] = "cancelled"
           /\ Lower(FileName(files[v])) = Lower(FileName(files[w]))
           /\ ~locks[Lower(FileName(files[v]))].locked
    /\ \E u \in Workers :
           wpc[u] = "copied" /\ ~locks[Lower(FileName(files[u]))].locked

\* C15: the candidate of a worker with counter n is <category>/"<stem>.<ext>"
\* for n = 0 and <category>/"<stem> (n).<ext>" otherwise, category and
\* ".<ext>" ending being those of the first candidate (the trailing dot of a
\* file without extension included), and when the loop has ended every
\* candidate of a smaller counter exists.
C15_LinearProbing ==
    \A w \in Workers :
        (wpc[w] = "probe" \/ Chosen(w)) =>
            LET name == FileName(files[w])
                cat  == InitialCandidate(name, DotIsSuffix).cat
            IN  /\ new_file[w] = [cat  |-> cat,
                                  name |-> ClaimedName(name, rename_tries[w])]
                /\ Chosen(w) =>
                       \A n \in 0..(rename_tries[w] - 1) :
                           Exists([cat |-> cat, name |-> ClaimedName(name, n)])

\* the workers that have looked their lock up
Registered == {w \in Workers : wpc[w] # "created"}

\* the registry holds one entry for each lower-cased name looked up so far
C16_Registry ==
    DOMAIN locks = {Lower(FileName(files[w])) : w \in Registered}

\* within a process no entry leaves the registry, and a step changes only
\* the lock of the lower-cased name of the worker that takes it
C16_Kept ==
    cpc' # "start" =>
        \A k \in DOMAIN locks :
            /\ k \in DOMAIN locks'
            /\ locks'[k] # locks[k] =>
                   \E w \in Workers :
                       /\ Lower(FileName(files[w])) = k
                       /\ wpc'[w] # wpc[w]

\* C16: the registry holds exactly one lock for each distinct lower-cased
\* file name for the whole process: names that differ only in case share
\* an entry, different lower-cased names have entries of their own, and an
\* entry once created is never removed or taken over by another name.
C16_OneLockPerName == []C16_Registry /\ [][C16_Kept]_vars

\* C16 witness: two names that differ only in case and a third name have
\* been looked up: two entries, one of them held by the first worker with
\* the worker of the other spelling in its queue.
C16_Witness ==
    \E v, w \in Workers :
        /\ FileName(files[v]) # FileName(files[w])
        /\ Lower(FileName(files[v])) = Lower(FileName(files[w]))
        /\ wpc[v] = "probe"
        /\ locks[Lower(FileName(files[v]))] = [locked |-> TRUE, waiters |-> <<w>>]
        /\ Cardinality(DOMAIN locks) = 2

\* the regular files reached from the source folder through directories
RegularFiles ==
    {n \in 1..Len(tree) :
        /\ tree[n].kind = "file"
        /\ \A j \in 1..(Len(PathTo(n)) - 1) : tree[PathTo(n)[j]].kind = "dir"}

\* the walk of this run is over and no directory failed to list
WalkedWithoutError ==
    /\ mpc \in {"launch", "gather", "returned"}
    /\ ~\E l \in log : l.event = "walk_failed" /\ l.run = run

\* C17: when every directory has been listed, the walk has returned exactly
\* the regular files reached by descending through directories, each of
\* them once and nothing else.
C17_ExactlyRegularFiles ==
    WalkedWithoutError =>
        /\ {files[i].path : i \in 1..Len(files)} = {PathTo(n) : n \in RegularFiles}
        /\ \A i, j \in 1..Len(files) :
               i # j => files[i].path # files[j].path /\ files[i].node # files[j].node
        /\ \A i \in 1..Len(files) : tree[files[i].path[Len(files[i].path)]].kind = "file"

\* until the walk has returned there is no worker and the destination holds
\* no file of this run; once there are workers, no activation of read_folder
\* is left and there is one worker for each file of the list
C18_Phases ==
    /\ mpc \in {"idle", "resolve", "walk", "launch"} =>
           /\ Workers = {}
           /\ \A p \in DOMAIN fs : fs[p].run < run
    /\ Workers # {} =>
           /\ stack = <<>>
           /\ Workers = 1..Len(files)

\* the list of files does not change while a run has workers
C18_ListFixed == (Workers # {} /\ cpc' # "start") => files' = files

\* C18: the walk of folder_copy is over before the copy phase starts: no
\* worker exists, and nothing of this run is in the destination, until
\* read_folder has returned the complete list, and nothing is added to the
\* list afterwards, so no file the run creates is found by its own walk.
C18_WalkBeforeCopy == []C18_Phases /\ [][C18_ListFixed]_vars

\* C18 witness: a worker of a walk over several directories is writing its
\* copy into the destination.
C18_Witness ==
    /\ Len(files) >= 2
    /\ \E w \in Workers :
           /\ wpc[w] = "copy_write"
           /\ Len(files[w].path) > 2
           /\ fs[new_file[w]].run = run

\* C19: a run that has started workers ends with folder_copy returned and
\* every worker having taken its lock and run to its end (copied, or its
\* failure logged); a worker that queues for a lock holds none.
C19_AllFinishAndReturn ==
    /\ (cpc = "exited" /\ Workers # {}) =>
           /\ mpc = "returned"
           /\ \A w \in Workers : wpc[w] \in {"copied", "failed"}
    /\ \A w \in Workers :
           wpc[w] = "waiting" =>
               \A k \in DOMAIN locks :
                   locks[k].locked => \E v \in Workers \ {w} : InCritical(v) /\ LockKey(v) = k

\* the words a sequential count would keep: those of the text without its
\* punctuation, cut at whitespace, and among them those searched for
Kept == Filtered(Split(remove_punctuation(mr.text)), mr.search_words)

\* the number of places at which word stands in words
Occurrences(words, word) == Cardinality({i \in 1..Len(words) : words[i] = word})

\* the sum of the values of a dictionary of numbers
RECURSIVE Total(_)
Total(d) ==
    IF DOMAIN d = {} THEN 0
    ELSE LET k == CHOOSE x \in DOMAIN d : TRUE
         IN  d[k] + Total([x \in DOMAIN d \ {k} |-> d[x]])

\* C20: whatever the order in which the pool runs the map and reduce tasks,
\* map_reduce returns the dictionary of a sequential count: its keys are
\* the distinct words kept, each with its number of occurrences, and the
\* counts add up to the number of words kept ("a,b" is the one word "ab",
\* "a a" counts "a" twice, a search for "a" drops "b").
C20_SequentialCount ==
    mr.pc = "returned" =>
        /\ DOMAIN mr.result = {Kept[i] : i \in 1..Len(Kept)}
        /\ \A k \in DOMAIN mr.result : mr.result[k] = Occurrences(Kept, k)
        /\ Total(mr.result) = Len(Kept)
        /\ \A i \in 1..Len(Kept) :
               /\ Kept[i] # <<>>
               /\ \A j \in 1..Len(Kept[i]) : Kept[i][j] \in Letters
        /\ mr.search_words # <<>> =>
               \A k \in DOMAIN mr.result : InWords(k, mr.search_words)
        /\ (mr.text = <<"a", ",", "b">> /\ mr.search_words = <<>>) =>
               mr.result = [k \in {<<"a", "b">>} |-> 1]
        /\ (mr.text = <<"a", " ", "a">>) =>
               mr.result = [k \in {<<"a">>} |-> 2]
        /\ (mr.text = <<"a", " ", "b">> /\ mr.search_words # <<>>) =>
               mr.result = [k \in {<<"a">>} |-> 1]

\* C20 witness: map_reduce has returned for a text of two equal words, and
\* the word counts 2.
C20_Witness ==
    /\ mr.pc = "returned"
    /\ Len(mr.words) = 2
    /\ mr.words[1] = mr.words[2]
    /\ mr.result = [k \in {mr.words[1]} |-> 2]

====
